---- MODULE Spec2Model ----
(***************************************************************************)
(* A model of the STUN binding codec and transaction of lai0xn/stun:       *)
(* header codec, attribute TLV codec, XOR-MAPPED-ADDRESS transform,        *)
(* message assembly, the server's per-datagram handler and Client.Dial.    *)
(*                                                                         *)
(* Go values are modelled as follows.                                      *)
(*   byte, uint16   an integer in 0..255, 0..65535                         *)
(*   uint32         a record [hi, lo] of its two 16-bit halves (TLC's      *)
(*                  integers stop at 2^31 - 1)                             *)
(*   []byte         a record [arr, len]: arr is the backing array from the *)
(*                  slice's first element to its capacity, len its length  *)
(*   (T, error)     a record [st |-> "ok", v |-> T], [st |-> "err", err],  *)
(*                  and [st |-> "panic"] for a run-time panic              *)
(***************************************************************************)
EXTENDS Integers, Sequences, FiniteSets, TLC

VARIABLES cin, cop, cres,
          srvPc, srvQueue, srvCur, srvSent, srvLog, nRecv,
          cliPc, cliMsg, cliOrig, cliWire, cliInbox, cliRet, cliTrace

vars == <<cin, cop, cres,
          srvPc, srvQueue, srvCur, srvSent, srvLog, nRecv,
          cliPc, cliMsg, cliOrig, cliWire, cliInbox, cliRet, cliTrace>>

codecVars == <<cin, cop, cres>>
srvVars == <<srvPc, srvQueue, srvCur, srvSent, srvLog, nRecv>>
cliVars == <<cliPc, cliMsg, cliOrig, cliWire, cliInbox, cliRet, cliTrace>>

-----------------------------------------------------------------------------
(* Bounds of the model *)

\* largest declared attribute length among the generated attributes
MaxAttrLen == 9
\* datagrams the environment sends to the server in one behaviour
MaxDatagrams == 2
\* datagrams waiting in the server's socket at one time
MaxQueue == 2
\* attributes of the message handed to Client.Dial
MaxAttrs == 2
\* attributes in one generated attribute section
MaxSeqAttrs == 2

-----------------------------------------------------------------------------
(* Program constants *)

headrLength == 20
BindingRequest == 1
BindingResponse == 257
ErrorResponse == 273
XORMappedAddress == 32
MappedAddress == 1
XORMappedAddressLength == 8
IPV4 == 1
\* 0x2112A442 as its halves 0x2112 and 0xA442
magicCookie == [hi |-> 8466, lo |-> 42050]
ServerBufSize == 1024
ClientBufSize == 2048

ErrShortBuffer == "buffer too short for reading"
ErrInvalidCookie == "invalid magic cookie"
ErrAttrNotFound == "attribute not found"
ErrShortWrite == "short byte write"
ErrInvalidIPv4 == "invalid IPv4 address"

-----------------------------------------------------------------------------
(* Go primitives *)

Ok(v) == [st |-> "ok", v |-> v]
Err(e) == [st |-> "err", err |-> e]
Panic == [st |-> "panic"]

Min(a, b) == IF a < b THEN a ELSE b

Zeros(n) == [i \in 1..n |-> 0]

\* make([]byte, n) and byte literals: length = capacity
MkSlice(bytes) == [arr |-> bytes, len |-> Len(bytes)]
Cap(s) == Len(s.arr)
\* the bytes a slice exposes
Bytes(s) == SubSeq(s.arr, 1, s.len)
\* s[i]; defined when i < len(s)
At(s, i) == s.arr[i + 1]
\* s[lo:]; Go panics unless lo <= len(s)
SliceFrom(s, lo) == [arr |-> SubSeq(s.arr, lo + 1, Len(s.arr)), len |-> s.len - lo]
\* s[lo:hi]; Go panics unless lo <= hi <= cap(s)
SliceTo(s, lo, hi) == [arr |-> SubSeq(s.arr, lo + 1, Len(s.arr)), len |-> hi - lo]
\* copy(dst, src) on byte sequences: min(len) bytes are copied
Copy(dst, src) ==
    [i \in 1..Len(dst) |-> IF i <= Len(src) THEN src[i] ELSE dst[i]]
\* copy(dst[off:], src) on a byte sequence dst
CopyAt(dst, off, src) ==
    [i \in 1..Len(dst) |->
        IF i > off /\ i - off <= Len(src) THEN src[i - off] ELSE dst[i]]

RECURSIVE XorN(_, _, _)
XorN(a, b, n) ==
    IF n = 0 THEN 0
    ELSE (((a % 2) + (b % 2)) % 2) + (2 * XorN(a \div 2, b \div 2, n - 1))

Xor8(a, b) == XorN(a, b, 8)
Xor16(a, b) == XorN(a, b, 16)
Xor32(a, b) == [hi |-> Xor16(a.hi, b.hi), lo |-> Xor16(a.lo, b.lo)]

\* uint32(b0)<<24 | uint32(b1)<<16 | uint32(b2)<<8 | uint32(b3)
Pack32(b0, b1, b2, b3) == [hi |-> (b0 * 256) + b1, lo |-> (b2 * 256) + b3]
\* byte(c >> k) for k = 24, 16, 8, 0
ByteOf32(c, k) ==
    CASE k = 24 -> c.hi \div 256
      [] k = 16 -> c.hi % 256
      [] k = 8  -> c.lo \div 256
      [] OTHER  -> c.lo % 256
\* binary.BigEndian.Uint32 and PutUint32
BigEndianUint32(b) == Pack32(b[1], b[2], b[3], b[4])
BigEndianPutUint32(c) ==
    <<ByteOf32(c, 24), ByteOf32(c, 16), ByteOf32(c, 8), ByteOf32(c, 0)>>

\* net.IP.To4: a 4-byte address is itself, a 16-byte IPv4-mapped address
\* gives its last four bytes, anything else is nil (the empty sequence)
To4(ip) ==
    IF Len(ip) = 4 THEN ip
    ELSE IF Len(ip) = 16
            /\ \A i \in 1..10 : ip[i] = 0
            /\ ip[11] = 255 /\ ip[12] = 255
         THEN SubSeq(ip, 13, 16)
         ELSE <<>>

\* the sequences over S of length at most n
RECURSIVE SeqsUpTo(_, _)
SeqsUpTo(S, n) ==
    IF n = 0 THEN {<<>>}
    ELSE SeqsUpTo(S, n - 1)
         \cup {Append(q, x) : q \in {r \in SeqsUpTo(S, n - 1) : Len(r) = n - 1}, x \in S}

-----------------------------------------------------------------------------
(* Header codec *)

\* decodeHeader reading the length field low byte first
decodeHeaderLE(buff) ==
    IF buff.len < 8 THEN Panic
    ELSE Ok([Type |-> (At(buff, 0) * 256) + At(buff, 1),
             Length |-> At(buff, 2) + (At(buff, 3) * 256),
             MagicCookie |-> Pack32(At(buff, 4), At(buff, 5), At(buff, 6), At(buff, 7)),
             TransactionID |-> Copy(Zeros(12), Bytes(SliceFrom(buff, 8)))])

\* src/header.go decodeHeader: no length test; an index beyond the length
\* panics, copy takes the bytes that are there
decodeHeader(buff) ==
    IF buff.len < 8 THEN Panic
    ELSE Ok([Type |-> (At(buff, 0) * 256) + At(buff, 1),
             Length |-> (At(buff, 2) * 256) + At(buff, 3),
             MagicCookie |-> Pack32(At(buff, 4), At(buff, 5), At(buff, 6), At(buff, 7)),
             TransactionID |-> Copy(Zeros(12), Bytes(SliceFrom(buff, 8)))])

\* the two-value decodeHeader that NewMessage calls: fewer than 20 bytes
\* is ErrShortBuffer
decodeHeaderErr(buff) ==
    IF buff.len < headrLength THEN Err(ErrShortBuffer)
    ELSE decodeHeader(buff)

\* encodeHeader writing the magic cookie least significant byte first
encodeHeaderCookieLE(header) ==
    MkSlice(CopyAt(
        <<(header.Type \div 256) % 256, header.Type % 256,
          (header.Length \div 256) % 256, header.Length % 256,
          ByteOf32(header.MagicCookie, 0), ByteOf32(header.MagicCookie, 8),
          ByteOf32(header.MagicCookie, 16), ByteOf32(header.MagicCookie, 24)>>
          \o Zeros(12),
        8, header.TransactionID))

encodeHeader(header) ==
    MkSlice(CopyAt(
        <<(header.Type \div 256) % 256, header.Type % 256,
          (header.Length \div 256) % 256, header.Length % 256,
          ByteOf32(header.MagicCookie, 24), ByteOf32(header.MagicCookie, 16),
          ByteOf32(header.MagicCookie, 8), ByteOf32(header.MagicCookie, 0)>>
          \o Zeros(12),
        8, header.TransactionID))

-----------------------------------------------------------------------------
(* Attribute codec *)

\* the padded length with the rounding applied to every length
PaddedLenAlways(attrLen) == (attrLen + 4) - (attrLen % 4)

\* the padded length DecodeAttr computes from the declared length
PaddedLen(attrLen) ==
    IF (attrLen % 4) # 0 THEN (attrLen + 4) - (attrLen % 4) ELSE attrLen

\* DecodeAttr slicing the declared length instead of the padded length
DecodeAttrUnpadded(buff) ==
    IF buff.len < 4 THEN Panic
    ELSE LET attrType == (At(buff, 0) * 256) + At(buff, 1)
             attrLen == (At(buff, 2) * 256) + At(buff, 3)
             paddedLen == PaddedLen(attrLen)
         IN IF 4 + attrLen > Cap(buff) THEN Panic
            ELSE Ok([Type |-> attrType,
                     Length |-> attrLen,
                     Value |-> SliceTo(buff, 4, 4 + attrLen),
                     PaddedLength |-> paddedLen])

DecodeAttr(buff) ==
    IF buff.len < 4 THEN Panic
    ELSE LET attrType == (At(buff, 0) * 256) + At(buff, 1)
             attrLen == (At(buff, 2) * 256) + At(buff, 3)
             paddedLen == PaddedLen(attrLen)
         IN IF 4 + paddedLen > Cap(buff) THEN Panic
            ELSE Ok([Type |-> attrType,
                     Length |-> attrLen,
                     Value |-> SliceTo(buff, 4, 4 + paddedLen),
                     PaddedLength |-> paddedLen])

\* Attribute.Encode: make([]byte, 4+a.PaddedLength) panics on a negative
\* size, and writing buff[0..3] panics on a buffer of fewer than 4 bytes
AttrEncode(a) ==
    IF 4 + a.PaddedLength < 4 THEN Panic
    ELSE Ok(MkSlice(CopyAt(
             <<(a.Type \div 256) % 256, a.Type % 256,
               (a.Length \div 256) % 256, a.Length % 256>> \o Zeros(a.PaddedLength),
             4, Bytes(a.Value))))

\* the byte size of the encodings of a list of attributes
RECURSIVE AttrSectionSize(_)
AttrSectionSize(attrs) ==
    IF attrs = <<>> THEN 0
    ELSE 4 + Head(attrs).PaddedLength + AttrSectionSize(Tail(attrs))

\* the encodings of a list of attributes, one after the other
RECURSIVE AttrsEncoding(_)
AttrsEncoding(attrs) ==
    IF attrs = <<>> THEN <<>>
    ELSE Bytes(AttrEncode(Head(attrs)).v) \o AttrsEncoding(Tail(attrs))

-----------------------------------------------------------------------------
(* XOR-MAPPED-ADDRESS transform *)

\* serializeAddr with the address XORed with the transaction ID
serializeAddrTid(addr, transactionID) ==
    LET ipv4 == To4(addr.IP)
        xorPort == Xor16(addr.Port, magicCookie.hi)
    IN IF ipv4 = <<>> THEN Err(ErrInvalidIPv4)
       ELSE Ok(MkSlice(<<0, IPV4, (xorPort \div 256) % 256, xorPort % 256>>
                       \o [i \in 1..4 |-> Xor8(ipv4[i], transactionID[i])]))

\* serializeAddr without the test of To4's result: a nil address is
\* written as 0.0.0.0
serializeAddrNoCheck(addr, transactionID) ==
    LET ipv4 == IF To4(addr.IP) = <<>> THEN Zeros(4) ELSE To4(addr.IP)
        xorPort == Xor16(addr.Port, magicCookie.hi)
        magicCookieBytes == BigEndianPutUint32(magicCookie)
    IN Ok(MkSlice(<<0, IPV4, (xorPort \div 256) % 256, xorPort % 256>>
                  \o [i \in 1..4 |-> Xor8(ipv4[i], magicCookieBytes[i])]))

serializeAddr(addr, transactionID) ==
    LET ipv4 == To4(addr.IP)
        xorPort == Xor16(addr.Port, magicCookie.hi)
        magicCookieBytes == BigEndianPutUint32(magicCookie)
    IN IF ipv4 = <<>> THEN Err(ErrInvalidIPv4)
       ELSE Ok(MkSlice(<<0, IPV4, (xorPort \div 256) % 256, xorPort % 256>>
                       \o [i \in 1..4 |-> Xor8(ipv4[i], magicCookieBytes[i])]))

\* decodeAddr with the XOR applied to the low port byte only
decodeAddrLowXor(addr) ==
    IF addr.len < 4 \/ Cap(addr) < 8 THEN Panic
    ELSE LET familly == At(addr, 1)
             x == magicCookie.hi
             port == (At(addr, 2) * 256) + Xor16(At(addr, 3), x % 256)
             ip == BigEndianPutUint32(
                       Xor32(BigEndianUint32(Bytes(SliceTo(addr, 4, 8))), magicCookie))
         IN Ok([Family |-> familly, Port |-> port, IP |-> ip])

decodeAddr(addr) ==
    IF addr.len < 4 \/ Cap(addr) < 8 THEN Panic
    ELSE LET familly == At(addr, 1)
             x == magicCookie.hi
             port == Xor16((At(addr, 2) * 256) + At(addr, 3), x)
             ip == BigEndianPutUint32(
                       Xor32(BigEndianUint32(Bytes(SliceTo(addr, 4, 8))), magicCookie))
         IN Ok([Family |-> familly, Port |-> port, IP |-> ip])

-----------------------------------------------------------------------------
(* Message assembly *)

RECURSIVE decodeAttrsLoop(_, _, _, _)
decodeAttrsLoop(buff, length, offset, attrs) ==
    IF ~(offset < length) THEN [st |-> "ok", v |-> attrs, offset |-> offset]
    ELSE IF offset > buff.len THEN Panic
    ELSE LET r == DecodeAttr(SliceFrom(buff, offset))
         IN IF r.st # "ok" THEN Panic
            ELSE decodeAttrsLoop(buff, length, offset + 4 + r.v.PaddedLength,
                                 Append(attrs, r.v))

\* decodeAttrs leaving its loop after the first attribute
decodeAttrsFirstOnly(buff, length) == decodeAttrsLoop(buff, Min(length, 1), 0, <<>>)

decodeAttrs(buff, length) == decodeAttrsLoop(buff, length, 0, <<>>)

\* one iteration of decodeAttrs' loop advancing the cursor by the attribute's
\* padded length and three bytes of its header
decodeAttrsStepShort(buff, offset) ==
    IF offset > buff.len THEN Panic
    ELSE LET r == DecodeAttr(SliceFrom(buff, offset))
         IN IF r.st # "ok" THEN Panic
            ELSE Ok([attr |-> r.v, offset |-> offset + 3 + r.v.PaddedLength])

\* one iteration of decodeAttrs' loop: the attribute at the cursor and the
\* cursor after it
decodeAttrsStep(buff, offset) ==
    IF offset > buff.len THEN Panic
    ELSE LET r == DecodeAttr(SliceFrom(buff, offset))
         IN IF r.st # "ok" THEN Panic
            ELSE Ok([attr |-> r.v, offset |-> offset + 4 + r.v.PaddedLength])

NewMessage(buff) ==
    LET header == decodeHeaderErr(buff)
    IN IF header.st # "ok" THEN header
       ELSE LET attributes == decodeAttrs(SliceFrom(buff, 20), header.v.Length)
            IN IF attributes.st # "ok" THEN Panic
               ELSE Ok([Header |-> header.v, Attributes |-> attributes.v])

RECURSIVE encodeLoop(_, _, _, _)
encodeLoop(buff, attrs, i, offset) ==
    IF i > Len(attrs) THEN Ok(MkSlice(buff))
    ELSE LET attr == attrs[i]
             encodedAttr == AttrEncode(attr)
             attrSize == attr.PaddedLength + 4
         IN IF encodedAttr.st # "ok" \/ offset + attrSize > Len(buff) THEN Panic
            ELSE encodeLoop(CopyAt(buff, offset, Bytes(encodedAttr.v)),
                            attrs, i + 1, offset + attrSize)

\* Message.Encode; Header.Length + 20 is computed in uint16
MsgEncode(m) ==
    LET size == (m.Header.Length + 20) % 65536
    IN IF size < 20 THEN Panic
       ELSE encodeLoop(CopyAt(Zeros(size), 0, Bytes(encodeHeader(m.Header))),
                       m.Attributes, 1, 20)

\* Message.GetAttr: the first attribute of type t in wire order
RECURSIVE GetAttrFrom(_, _, _)
GetAttrFrom(attrs, t, i) ==
    IF i > Len(attrs) THEN [found |-> FALSE]
    ELSE IF attrs[i].Type = t THEN [found |-> TRUE, attr |-> attrs[i]]
    ELSE GetAttrFrom(attrs, t, i + 1)

GetAttr(m, t) == GetAttrFrom(m.Attributes, t, 1)

\* Message.GetXorAddr: (nil, nil), (addr, nil) or (nil, ErrAttrNotFound)
GetXorAddr(m) ==
    IF m.Header.Type # BindingResponse THEN [st |-> "ok", nil |-> TRUE]
    ELSE LET a == GetAttr(m, XORMappedAddress)
         IN IF a.found
            THEN LET d == decodeAddr(a.attr.Value)
                 IN IF d.st # "ok" THEN Panic
                    ELSE [st |-> "ok", nil |-> FALSE, v |-> d.v]
            ELSE Err(ErrAttrNotFound)

-----------------------------------------------------------------------------
(* Server: Packet and the per-datagram handler *)

\* the address the server's socket is bound to
ServerAddr == [IP |-> <<127, 0, 0, 1>>, Port |-> 3478]

\* conn.ReadFromUDP(buff): the datagram's first len(buff) bytes land in a
\* fresh zeroed buffer; the result is (buff, n)
ReadInto(size, data) ==
    [buff |-> MkSlice(CopyAt(Zeros(size), 0, SubSeq(data, 1, Min(Len(data), size)))),
     n |-> Min(Len(data), size)]

\* buff[:n] of a buffer: same backing array, length n
Prefix(buff, n) == [arr |-> buff.arr, len |-> n]

\* NewPacket(con, buff, remoteAddr) for a UDP connection and a non-nil
\* UDP remote address
NewPacket(buff, remoteAddr) ==
    LET msg == NewMessage(buff)
    IN IF msg.st # "ok" THEN msg
       ELSE Ok([message |-> msg.v,
                sourceIP |-> ServerAddr.IP,
                sourcePort |-> ServerAddr.Port,
                remoteIP |-> remoteAddr.IP,
                remotePort |-> (remoteAddr.Port % 65536)])

\* the byte count con.WriteTo reports for a datagram of size bytes: "full"
\* all of it, "short" one byte less, "zero" none
Written(sock, size) ==
    CASE sock = "full" -> size
      [] sock = "short" -> IF size > 0 THEN size - 1 ELSE 0
      [] OTHER -> 0

\* Packet.Write without the comparison of the count with the message size
PacketWriteNoShortCheck(buff, sock) ==
    LET msg == NewMessage(buff)
    IN IF msg.st # "ok" THEN [st |-> msg.st, why |-> "parse", n |-> 0, wire |-> <<>>]
       ELSE LET enc == MsgEncode(msg.v)
            IN IF enc.st # "ok" THEN [st |-> "panic", why |-> "encode", n |-> 0, wire |-> <<>>]
               ELSE IF sock = "fail"
                    THEN [st |-> "err", why |-> "write-error", n |-> 0, wire |-> <<>>]
                    ELSE LET n == Written(sock, enc.v.len)
                         IN [st |-> "ok", why |-> "sent", n |-> n,
                             wire |-> <<SubSeq(Bytes(enc.v), 1, n)>>]

\* Packet.Write(buff, remoteAddr); sock is what con.WriteTo does with the
\* datagram: "fail" returns an error, "full", "short" and "zero" report a
\* byte count
PacketWrite(buff, sock) ==
    LET msg == NewMessage(buff)
    IN IF msg.st # "ok" THEN [st |-> msg.st, why |-> "parse", n |-> 0, wire |-> <<>>]
       ELSE LET enc == MsgEncode(msg.v)
            IN IF enc.st # "ok" THEN [st |-> "panic", why |-> "encode", n |-> 0, wire |-> <<>>]
               ELSE IF sock = "fail"
                    THEN [st |-> "err", why |-> "write-error", n |-> 0, wire |-> <<>>]
                    ELSE LET n == Written(sock, enc.v.len)
                         IN IF n < msg.v.Header.Length + headrLength
                            THEN [st |-> "err", why |-> ErrShortWrite, n |-> n,
                                  wire |-> <<SubSeq(Bytes(enc.v), 1, n)>>]
                            ELSE [st |-> "ok", why |-> "sent", n |-> n,
                                  wire |-> <<SubSeq(Bytes(enc.v), 1, n)>>]

\* the response built over the socket's own address
RespondLocal(packet, sock) ==
    LET trID == packet.message.Header.TransactionID
        xorAddr == serializeAddr([Family |-> IPV4,
                                  IP |-> packet.sourceIP,
                                  Port |-> packet.sourcePort], trID)
    IN IF xorAddr.st # "ok"
       THEN [st |-> "err", why |-> "serialize-error", n |-> 0, wire |-> <<>>]
       ELSE LET xorAttr == [Length |-> XORMappedAddressLength,
                            Type |-> XORMappedAddress,
                            PaddedLength |-> XORMappedAddressLength,
                            Value |-> xorAddr.v]
                msg == [Header |-> [Type |-> BindingResponse,
                                    Length |-> XORMappedAddressLength + 4,
                                    TransactionID |-> trID,
                                    MagicCookie |-> magicCookie],
                        Attributes |-> <<xorAttr>>]
                content == MsgEncode(msg)
            IN IF content.st # "ok"
               THEN [st |-> "panic", why |-> "encode", n |-> 0, wire |-> <<>>]
               ELSE PacketWrite(content.v, sock)

\* the response built with a zero transaction ID
RespondZeroTid(packet, sock) ==
    LET trID == packet.message.Header.TransactionID
        xorAddr == serializeAddr([Family |-> IPV4,
                                  IP |-> packet.remoteIP,
                                  Port |-> packet.remotePort], trID)
    IN IF xorAddr.st # "ok"
       THEN [st |-> "err", why |-> "serialize-error", n |-> 0, wire |-> <<>>]
       ELSE LET xorAttr == [Length |-> XORMappedAddressLength,
                            Type |-> XORMappedAddress,
                            PaddedLength |-> XORMappedAddressLength,
                            Value |-> xorAddr.v]
                msg == [Header |-> [Type |-> BindingResponse,
                                    Length |-> XORMappedAddressLength + 4,
                                    TransactionID |-> Zeros(12),
                                    MagicCookie |-> magicCookie],
                        Attributes |-> <<xorAttr>>]
                content == MsgEncode(msg)
            IN IF content.st # "ok"
               THEN [st |-> "panic", why |-> "encode", n |-> 0, wire |-> <<>>]
               ELSE PacketWrite(content.v, sock)

\* the response carrying the request's message type
RespondEchoType(packet, sock) ==
    LET trID == packet.message.Header.TransactionID
        xorAddr == serializeAddr([Family |-> IPV4,
                                  IP |-> packet.remoteIP,
                                  Port |-> packet.remotePort], trID)
    IN IF xorAddr.st # "ok"
       THEN [st |-> "err", why |-> "serialize-error", n |-> 0, wire |-> <<>>]
       ELSE LET xorAttr == [Length |-> XORMappedAddressLength,
                            Type |-> XORMappedAddress,
                            PaddedLength |-> XORMappedAddressLength,
                            Value |-> xorAddr.v]
                msg == [Header |-> [Type |-> packet.message.Header.Type,
                                    Length |-> XORMappedAddressLength + 4,
                                    TransactionID |-> trID,
                                    MagicCookie |-> magicCookie],
                        Attributes |-> <<xorAttr>>]
                content == MsgEncode(msg)
            IN IF content.st # "ok"
               THEN [st |-> "panic", why |-> "encode", n |-> 0, wire |-> <<>>]
               ELSE PacketWrite(content.v, sock)

\* the part of HandleUDPConn after NewPacket: serialize the sender's
\* address, build the binding response, encode it and write it
Respond(packet, sock) ==
    LET trID == packet.message.Header.TransactionID
        xorAddr == serializeAddr([Family |-> IPV4,
                                  IP |-> packet.remoteIP,
                                  Port |-> packet.remotePort], trID)
    IN IF xorAddr.st # "ok"
       THEN [st |-> "err", why |-> "serialize-error", n |-> 0, wire |-> <<>>]
       ELSE LET xorAttr == [Length |-> XORMappedAddressLength,
                            Type |-> XORMappedAddress,
                            PaddedLength |-> XORMappedAddressLength,
                            Value |-> xorAddr.v]
                msg == [Header |-> [Type |-> BindingResponse,
                                    Length |-> XORMappedAddressLength + 4,
                                    TransactionID |-> trID,
                                    MagicCookie |-> magicCookie],
                        Attributes |-> <<xorAttr>>]
                content == MsgEncode(msg)
            IN IF content.st # "ok"
               THEN [st |-> "panic", why |-> "encode", n |-> 0, wire |-> <<>>]
               ELSE PacketWrite(content.v, sock)

-----------------------------------------------------------------------------
(* Inputs of the codec operations *)

TidSeq == [i \in 1..12 |-> i]
TidFF == [i \in 1..12 |-> 255]
TidZero == Zeros(12)
TidMix == [i \in 1..12 |-> (i * 53) % 256]
Tids == {TidSeq, TidFF, TidZero}

Cookies == {magicCookie, [hi |-> 0, lo |-> 0], [hi |-> 65535, lo |-> 65535],
            [hi |-> 291, lo |-> 17767]}

Headers == [Type : {BindingRequest, BindingResponse, ErrorResponse, 65535},
            Length : {0, 12, 258, 65535},
            MagicCookie : Cookies,
            TransactionID : Tids]

IPv4s == {<<203, 0, 113, 5>>, <<0, 0, 0, 0>>, <<255, 255, 255, 255>>,
          <<33, 18, 164, 66>>, <<10, 0, 0, 1>>,
          Zeros(10) \o <<255, 255, 192, 168, 1, 7>>}
Ports == {0, 255, 256, 3478, 8466, 54321, 65535}
Addrs == [Family : {IPV4}, IP : IPv4s, Port : Ports]

\* addresses To4 turns down: nil, IPv6 addresses, and a length that is no
\* address at all
NonIPv4s == {<<>>,
             <<32, 1, 13, 184>> \o Zeros(11) \o <<1>>,
             Zeros(15) \o <<1>>,
             Zeros(16),
             Zeros(10) \o <<255, 0, 192, 168, 1, 7>>,
             <<10, 0, 0, 1, 0>>}
BadAddrs == [Family : {IPV4}, IP : NonIPv4s, Port : {0, 3478, 54321}]

\* value bytes of a generated attribute: a pattern that leaves the padding
\* non-zero, and data followed by zero padding
ValueBytes(pat, n, padded) ==
    [i \in 1..padded |->
        IF pat = 1 THEN ((i * 37) + n + 11) % 256
        ELSE IF i <= n THEN 255 - i ELSE 0]

Attrs == {[Type |-> t, Length |-> n, PaddedLength |-> PaddedLen(n),
           Value |-> MkSlice(ValueBytes(pat, n, PaddedLen(n)))] :
          t \in {XORMappedAddress, MappedAddress, 32802},
          n \in 0..MaxAttrLen, pat \in {1, 2}}

\* attributes built by hand: the PaddedLength field is an int of any sign
\* and the value need not have PaddedLength bytes
RawAttrs == {[Type |-> 6, Length |-> n, PaddedLength |-> p, Value |-> MkSlice(v)] :
             n \in {0, 3}, p \in {-5, -4, -1, 0, 4}, v \in {<<>>, <<97, 98, 99>>,
                                                          <<1, 2, 3, 4, 5, 6>>}}

\* a well-formed 32-byte binding response and a 28-byte request with one
\* attribute of declared length 3
SampleResponse ==
    Bytes(encodeHeader([Type |-> BindingResponse, Length |-> 12,
                        MagicCookie |-> magicCookie, TransactionID |-> TidSeq]))
    \o <<0, 32, 0, 8, 0, 1, 245, 35, 234, 18, 213, 71>>
SampleRequest ==
    Bytes(encodeHeader([Type |-> BindingRequest, Length |-> 8,
                        MagicCookie |-> magicCookie, TransactionID |-> TidMix]))
    \o <<0, 6, 0, 3, 97, 98, 99, 0>>
AllFF == [i \in 1..32 |-> 255]

\* a buffer of the given bytes whose backing array has `extra` more bytes
WithCap(bytes, extra) == [arr |-> bytes \o Zeros(extra), len |-> Len(bytes)]

\* header-only and attribute-carrying messages under every cookie
CookieBufs ==
    {Bytes(encodeHeader([Type |-> t, Length |-> 0, MagicCookie |-> c,
                         TransactionID |-> TidSeq])) :
        t \in {BindingRequest, BindingResponse}, c \in Cookies}
    \cup {Bytes(encodeHeader([Type |-> BindingResponse, Length |-> 12,
                              MagicCookie |-> c, TransactionID |-> TidFF]))
          \o <<0, 32, 0, 8, 0, 1, 245, 35, 234, 18, 213, 71>> : c \in Cookies}

\* messages whose header length or attribute lengths overrun the bytes
OverrunBufs ==
    LET h(n) == Bytes(encodeHeader([Type |-> BindingRequest, Length |-> n,
                                    MagicCookie |-> magicCookie,
                                    TransactionID |-> TidSeq]))
    IN {h(4), h(8) \o <<0, 6, 0, 4>>, h(8) \o <<0, 6, 0, 5, 1, 2, 3, 4>>,
        h(4) \o <<0, 6, 7, 208>>, h(12) \o <<0, 6, 0, 4, 1, 2, 3, 4, 0, 32>>,
        h(2) \o <<0, 6>>}

\* attribute buffers: encodings of attributes, whole and cut short
AttrBufs ==
    {<<>>, <<0, 32>>, <<0, 32, 0>>, <<0, 32, 0, 0>>, <<0, 32, 0, 8>>,
     <<0, 32, 0, 8, 0, 1, 245, 35>>, <<0, 32, 0, 8, 0, 1, 245, 35, 234, 18, 213, 71>>,
     <<0, 6, 0, 3, 97, 98, 99>>, <<0, 6, 0, 3, 97, 98, 99, 0>>,
     <<0, 6, 0, 1>>, <<0, 6, 255, 255, 1, 2, 3, 4>>,
     <<0, 6, 0, 4, 1, 2, 3, 4, 0, 32, 0, 6, 9, 8, 7, 6, 5, 4, 0, 0>>}

\* a message of type t around the given attribute bytes
MsgBytes(t, attrBytes) ==
    Bytes(encodeHeader([Type |-> t, Length |-> Len(attrBytes),
                        MagicCookie |-> magicCookie, TransactionID |-> TidSeq]))
    \o attrBytes

\* XOR-MAPPED-ADDRESS of 203.0.113.5:54321 and of 10.0.0.1:8466, another
\* attribute, and XOR-MAPPED-ADDRESS of declared length 0, 4 and 5
XorA == <<0, 32, 0, 8, 0, 1, 245, 35, 234, 18, 213, 71>>
XorB == <<0, 32, 0, 8, 0, 1, 0, 0, 43, 18, 164, 67>>
OtherAttr == <<0, 6, 0, 3, 97, 98, 99, 0>>
XorEmpty == <<0, 32, 0, 0>>
XorShort == <<0, 32, 0, 4, 0, 1, 245, 35>>
XorFive == <<0, 32, 0, 5, 0, 1, 245, 35, 234, 18, 213, 71>>

\* messages for the attribute lookup: every message type, with no, one and
\* two XOR-MAPPED-ADDRESS attributes in either order
XorBufs ==
    {MsgBytes(BindingRequest, XorA), MsgBytes(ErrorResponse, XorA),
     MsgBytes(BindingRequest, OtherAttr),
     MsgBytes(BindingResponse, <<>>), MsgBytes(BindingResponse, OtherAttr),
     MsgBytes(BindingResponse, XorA \o XorB), MsgBytes(BindingResponse, XorB \o XorA),
     MsgBytes(BindingResponse, OtherAttr \o XorA), MsgBytes(BindingResponse, XorFive),
     MsgBytes(BindingResponse, XorEmpty), MsgBytes(BindingResponse, XorShort),
     MsgBytes(BindingResponse, XorEmpty \o XorA)}

\* the encoding of an attribute of the largest declared length
LongestAttrBuf == <<0, 6, 255, 255>> \o [i \in 1..65536 |-> i % 251]

ShortBufs ==
    {SubSeq(b, 1, n) : b \in {SampleResponse, SampleRequest, AllFF},
                       n \in 0..(headrLength - 1)}

MessageBufs ==
    {SampleResponse, SampleRequest} \cup CookieBufs \cup OverrunBufs \cup XorBufs

\* every buffer is tried with capacity = length and with spare capacity,
\* as a buffer cut from a larger read buffer has
BufSlices(bufs) == {WithCap(b, e) : b \in bufs, e \in {0, 16}}

NoHdr == [Type |-> 0, Length |-> 0, MagicCookie |-> [hi |-> 0, lo |-> 0],
          TransactionID |-> TidZero]
NoAddr == [Family |-> 0, IP |-> <<>>, Port |-> 0]
NoAttr == [Type |-> 0, Length |-> 0, PaddedLength |-> 0, Value |-> MkSlice(<<>>)]
NoBuf == MkSlice(<<>>)

CodecInput(kind, hdr, addr, attr, buf) ==
    [kind |-> kind, hdr |-> hdr, addr |-> addr, attr |-> attr, buf |-> buf,
     n |-> 0, attrs |-> <<>>]

\* the attributes of generated attribute sections: declared lengths on both
\* sides of a multiple of 4
SeqAttrs == {[Type |-> t, Length |-> n, PaddedLength |-> PaddedLen(n),
              Value |-> MkSlice(ValueBytes(1, n, PaddedLen(n)))] :
             t \in {XORMappedAddress, MappedAddress}, n \in {0, 4, 6, MaxAttrLen}}

\* a list of attributes and the buffer that is their encodings in order
AttrSeqInput(q, extra) ==
    [CodecInput("attrseq", NoHdr, NoAddr, NoAttr, WithCap(AttrsEncoding(q), extra))
        EXCEPT !.attrs = q]

\* a well-formed message: a header whose length field is the size of the
\* attribute section, the attributes' encodings, and bytes after them; the
\* input keeps the attributes' types and lengths beside the buffer
WellFormedInput(t, q, trailing, extra) ==
    LET h == [Type |-> t, Length |-> AttrSectionSize(q),
              MagicCookie |-> magicCookie, TransactionID |-> TidMix]
    IN [CodecInput("wfmsg", h, NoAddr, NoAttr,
                   WithCap(Bytes(encodeHeader(h)) \o AttrsEncoding(q) \o trailing, extra))
           EXCEPT !.attrs = [i \in 1..Len(q) |->
                               [Type |-> q[i].Type, Length |-> q[i].Length,
                                PaddedLength |-> q[i].PaddedLength]]]

\* one attribute that fills an attribute section of n bytes
FillingAttr(n) ==
    [Type |-> 6, Length |-> n - 4, PaddedLength |-> n - 4,
     Value |-> MkSlice([i \in 1..(n - 4) |-> i % 253])]

WellFormedInputs ==
    {WellFormedInput(t, q, tr, e) :
        t \in {BindingRequest, BindingResponse},
        q \in SeqsUpTo(SeqAttrs, MaxSeqAttrs),
        tr \in {<<>>, <<0, 32, 0, 8>>},
        e \in {0, 16}}
    \cup {WellFormedInput(BindingRequest, <<FillingAttr(n)>>, <<>>, 0) :
            n \in {65512, 65516}}

\* header lengths for Message.Encode: small ones, and those from the first
\* length for which length + 20 no longer fits in 16 bits
EncodeLengths == {0, 1, 12, 258, 1004, 65516, 65517, 65535}

\* a declared attribute length: every value of the 16-bit field
LenInput(n) == [CodecInput("len", NoHdr, NoAddr, NoAttr, NoBuf) EXCEPT !.n = n]

\* decodeAttrs' arguments: a buffer and a length that need not agree
LoopBufs == AttrBufs \cup {Zeros(64)}
LoopLengths(b) == {0, 1, 4, 5, 8, Len(b), Len(b) + 1, 65535}
LoopInput(b, n, extra) ==
    [CodecInput("loop", NoHdr, NoAddr, NoAttr, WithCap(b, extra)) EXCEPT !.n = n]

CodecInputs ==
    {CodecInput("hdr", h, NoAddr, NoAttr, NoBuf) : h \in Headers}
    \cup {CodecInput("addr", NoHdr, a, NoAttr, NoBuf) : a \in Addrs}
    \cup {CodecInput("attr", NoHdr, NoAddr, a, NoBuf) : a \in Attrs}
    \cup {CodecInput("rawattr", NoHdr, NoAddr, a, NoBuf) : a \in RawAttrs}
    \cup {CodecInput("msgbuf", NoHdr, NoAddr, NoAttr, b) :
            b \in BufSlices(ShortBufs \cup MessageBufs)}
    \cup {CodecInput("attrbuf", NoHdr, NoAddr, NoAttr, b) : b \in BufSlices(AttrBufs)}
    \cup {CodecInput("attrbuf", NoHdr, NoAddr, NoAttr, MkSlice(LongestAttrBuf))}
    \cup {LenInput(n) : n \in 0..65535}
    \cup {LoopInput(b, n, e) : b \in LoopBufs, n \in UNION {LoopLengths(x) : x \in LoopBufs},
                                e \in {0, 8}}
    \cup WellFormedInputs
    \cup {CodecInput("enc", h, NoAddr, NoAttr, NoBuf) :
            h \in [Type : {BindingRequest}, Length : EncodeLengths,
                   MagicCookie : {magicCookie}, TransactionID : {TidSeq}]}
    \cup {CodecInput("badaddr", NoHdr, a, NoAttr, NoBuf) : a \in BadAddrs}
    \cup {CodecInput("peer", h, a, NoAttr, NoBuf) :
            h \in {x \in Headers : x.Length = 0 /\ x.MagicCookie = magicCookie},
            a \in BadAddrs \cup {x \in Addrs : x.Port \in {0, 54321}}}
    \cup {AttrSeqInput(q, e) : q \in SeqsUpTo(SeqAttrs, MaxSeqAttrs), e \in {0, 16}}

-----------------------------------------------------------------------------
(* The codec operations applied to one drawn input *)

CodecInit == cin \in CodecInputs /\ cop = "none" /\ cres = [st |-> "none"]
CodecIdle == cin = CodecInput("none", NoHdr, NoAddr, NoAttr, NoBuf)
             /\ cop = "none" /\ cres = [st |-> "none"]

\* decodeHeader(encodeHeader(h))
HeaderRoundTrip ==
    /\ cop = "none" /\ cin.kind = "hdr"
    /\ cop' = "HeaderRoundTrip"
    /\ cres' = [enc |-> encodeHeader(cin.hdr),
                dec |-> decodeHeader(encodeHeader(cin.hdr))]
    /\ UNCHANGED cin

\* decodeAddr(serializeAddr(a, p))
AddrRoundTrip ==
    /\ cop = "none" /\ cin.kind = "addr"
    /\ cop' = "AddrRoundTrip"
    /\ LET ser == serializeAddr(cin.addr, TidSeq)
       IN cres' = [ser |-> ser,
                   dec |-> IF ser.st = "ok" THEN decodeAddr(ser.v) ELSE ser]
    /\ UNCHANGED cin

\* DecodeAttr(a.Encode())
AttrRoundTrip ==
    /\ cop = "none" /\ cin.kind = "attr"
    /\ cop' = "AttrRoundTrip"
    /\ LET enc == AttrEncode(cin.attr)
       IN cres' = [enc |-> enc,
                   dec |-> IF enc.st = "ok" THEN DecodeAttr(enc.v) ELSE enc]
    /\ UNCHANGED cin

\* a.Encode() on an attribute built by hand, whose PaddedLength need not
\* agree with its Length or its Value
ApplyAttrEncode ==
    /\ cop = "none" /\ cin.kind = "rawattr"
    /\ cop' = "AttrEncode"
    /\ cres' = AttrEncode(cin.attr)
    /\ UNCHANGED cin

\* decodeHeader of src/header.go on the buffer
ApplyDecodeHeader ==
    /\ cop = "none" /\ cin.kind = "msgbuf"
    /\ cop' = "decodeHeader"
    /\ cres' = decodeHeader(cin.buf)
    /\ UNCHANGED cin

ApplyNewMessage ==
    /\ cop = "none" /\ cin.kind = "msgbuf"
    /\ cop' = "NewMessage"
    /\ cres' = NewMessage(cin.buf)
    /\ UNCHANGED cin

ApplyDecodeAttr ==
    /\ cop = "none" /\ cin.kind = "attrbuf"
    /\ cop' = "DecodeAttr"
    /\ cres' = DecodeAttr(cin.buf)
    /\ UNCHANGED cin

\* decodeAttrs over the whole buffer
ApplyDecodeAttrs ==
    /\ cop = "none" /\ cin.kind \in {"attrbuf", "attrseq"}
    /\ cop' = "decodeAttrs"
    /\ cres' = decodeAttrs(cin.buf, cin.buf.len)
    /\ UNCHANGED cin

\* decodeAttrs(buff, length) statement by statement: entry, one action per loop
\* iteration, and the return; prev is the cursor before the last iteration
DecodeAttrsEnter ==
    /\ cop = "none" /\ cin.kind = "loop"
    /\ cop' = "decodeAttrsLoop"
    /\ cres' = [st |-> "loop", offset |-> 0, prev |-> 0, iters |-> 0, attrs |-> <<>>]
    /\ UNCHANGED cin

DecodeAttrsIterate ==
    /\ cop = "decodeAttrsLoop" /\ cres.st = "loop"
    /\ cres.offset < cin.n
    /\ LET r == decodeAttrsStep(cin.buf, cres.offset)
       IN cres' = IF r.st # "ok" THEN [cres EXCEPT !.st = "panic"]
                  ELSE [cres EXCEPT !.offset = r.v.offset, !.prev = cres.offset,
                                    !.iters = @ + 1, !.attrs = Append(@, r.v.attr)]
    /\ UNCHANGED <<cin, cop>>

DecodeAttrsReturn ==
    /\ cop = "decodeAttrsLoop" /\ cres.st = "loop"
    /\ ~(cres.offset < cin.n)
    /\ cres' = [cres EXCEPT !.st = "ok"]
    /\ UNCHANGED <<cin, cop>>

\* the padded length of DecodeAttr (part_000 22-25) for a declared length
ApplyPaddedLen ==
    /\ cop = "none" /\ cin.kind = "len"
    /\ cop' = "PaddedLen"
    /\ cres' = [padded |-> PaddedLen(cin.n)]
    /\ UNCHANGED cin

\* NewMessage(b).Encode(), as Packet.Write does with the response
ApplyReencode ==
    /\ cop = "none" /\ cin.kind = "wfmsg"
    /\ cop' = "Reencode"
    /\ LET m == NewMessage(cin.buf)
       IN cres' = [st |-> m.st,
                   nattrs |-> IF m.st = "ok" THEN Len(m.v.Attributes) ELSE 0,
                   enc |-> IF m.st = "ok" THEN MsgEncode(m.v) ELSE m]
    /\ UNCHANGED cin

\* serializeAddr(addr, transactionID) under every transaction ID
ApplySerializeAddr ==
    /\ cop = "none" /\ cin.kind \in {"addr", "badaddr"}
    /\ cop' = "serializeAddr"
    /\ \E tid \in Tids \cup {TidMix} :
          cres' = [tid |-> tid, ser |-> serializeAddr(cin.addr, tid)]
    /\ UNCHANGED cin

\* the packet NewPacket makes of a header-only request from cin.addr
PeerPacket ==
    [message |-> [Header |-> cin.hdr, Attributes |-> <<>>],
     sourceIP |-> ServerAddr.IP,
     sourcePort |-> ServerAddr.Port,
     remoteIP |-> cin.addr.IP,
     remotePort |-> cin.addr.Port]

\* HandleUDPConn from serializeAddr on, for that packet
ApplyRespond ==
    /\ cop = "none" /\ cin.kind = "peer"
    /\ cop' = "Respond"
    /\ \E sock \in {"full", "fail"} : cres' = Respond(PeerPacket, sock)
    /\ UNCHANGED cin

\* m.Encode() for a message of the given header and no attributes; the
\* result is kept as its status, its length and its first 20 bytes
ApplyEncode ==
    /\ cop = "none" /\ cin.kind = "enc"
    /\ cop' = "Encode"
    /\ LET enc == MsgEncode([Header |-> cin.hdr, Attributes |-> <<>>])
       IN cres' = [st |-> enc.st,
                   len |-> IF enc.st = "ok" THEN enc.v.len ELSE 0,
                   head |-> IF enc.st = "ok" THEN SubSeq(Bytes(enc.v), 1, 20) ELSE <<>>]
    /\ UNCHANGED cin

\* Packet.Write on a buffer of at most the handler's buffer size, under
\* every outcome of con.WriteTo
ApplyPacketWrite ==
    /\ cop = "none" /\ cin.kind = "wfmsg" /\ cin.buf.len <= ServerBufSize
    /\ cop' = "PacketWrite"
    /\ \E sock \in {"full", "short", "zero", "fail"} :
          cres' = [sock |-> sock, r |-> PacketWrite(cin.buf, sock)]
    /\ UNCHANGED cin

\* m.GetXorAddr() on the message NewMessage returned for the buffer
ApplyGetXorAddr ==
    /\ cop = "none" /\ cin.kind = "msgbuf"
    /\ NewMessage(cin.buf).st = "ok"
    /\ cop' = "GetXorAddr"
    /\ cres' = [msg |-> NewMessage(cin.buf).v, ret |-> GetXorAddr(NewMessage(cin.buf).v)]
    /\ UNCHANGED cin

CodecNext ==
    \/ HeaderRoundTrip
    \/ AddrRoundTrip
    \/ AttrRoundTrip
    \/ ApplyAttrEncode
    \/ ApplyDecodeHeader
    \/ ApplyNewMessage
    \/ ApplyDecodeAttr
    \/ ApplyDecodeAttrs
    \/ ApplyGetXorAddr
    \/ ApplyPaddedLen
    \/ ApplyReencode
    \/ ApplySerializeAddr
    \/ ApplyRespond
    \/ ApplyEncode
    \/ ApplyPacketWrite
    \/ DecodeAttrsEnter
    \/ DecodeAttrsIterate
    \/ DecodeAttrsReturn

-----------------------------------------------------------------------------
(* Server.Listen: for { s.HandleUDPConn(conn) } on one udp4 socket *)

PeerA == [IP |-> <<203, 0, 113, 5>>, Port |-> 54321]
PeerB == [IP |-> <<10, 0, 0, 1>>, Port |-> 8466]
NoPeer == [IP |-> <<>>, Port |-> 0]

HeaderOnly(t, n, c, tid) ==
    Bytes(encodeHeader([Type |-> t, Length |-> n, MagicCookie |-> c,
                        TransactionID |-> tid]))

\* datagrams a peer may send: well-formed requests, other message types,
\* a foreign cookie, and malformed ones
GoodDatagrams ==
    {HeaderOnly(BindingRequest, 0, magicCookie, TidSeq),
     HeaderOnly(BindingRequest, 0, magicCookie, TidFF),
     SampleRequest,
     SampleResponse,
     HeaderOnly(BindingRequest, 0, [hi |-> 0, lo |-> 0], TidSeq),
     HeaderOnly(BindingRequest, 8, magicCookie, TidSeq) \o <<0, 6, 0, 4>>}
BadDatagrams ==
    {<<>>,
     SubSeq(SampleRequest, 1, 19),
     HeaderOnly(BindingRequest, 4, magicCookie, TidSeq),
     HeaderOnly(BindingRequest, 4, magicCookie, TidSeq) \o <<0, 6, 7, 208>>}

EnvSends ==
    {[data |-> d, from |-> PeerA] : d \in GoodDatagrams \cup BadDatagrams}
    \cup {[data |-> HeaderOnly(BindingRequest, 0, magicCookie, TidSeq), from |-> PeerB],
          [data |-> SampleRequest, from |-> PeerB]}

NoDatagram == [data |-> <<>>, from |-> NoPeer]

SrvInit ==
    /\ srvPc = "read"
    /\ srvQueue = <<>>
    /\ srvCur = NoDatagram
    /\ srvSent = <<>>
    /\ srvLog = <<>>
    /\ nRecv = 0

\* a peer's datagram reaches the server's socket
EnvSend ==
    /\ nRecv < MaxDatagrams
    /\ Len(srvQueue) < MaxQueue
    /\ \E d \in EnvSends : srvQueue' = Append(srvQueue, d)
    /\ nRecv' = nRecv + 1
    /\ UNCHANGED <<srvPc, srvCur, srvSent, srvLog>>

\* HandleUDPConn, con.ReadFromUDP returns the next datagram
ServerRead ==
    /\ srvPc = "read"
    /\ srvQueue # <<>>
    /\ srvCur' = Head(srvQueue)
    /\ srvQueue' = Tail(srvQueue)
    /\ srvPc' = "handle"
    /\ UNCHANGED <<srvSent, srvLog, nRecv>>

\* what HandleUDPConn does with the datagram read: NewPacket on buff[:n],
\* then the response; a panic is not recovered and ends the process
HandleResult(d, sock) ==
    LET rd == ReadInto(ServerBufSize, d.data)
        packet == NewPacket(Prefix(rd.buff, rd.n), d.from)
    IN IF packet.st = "err" THEN [outcome |-> "decode-error", wire |-> <<>>]
       ELSE IF packet.st = "panic" THEN [outcome |-> "decode-panic", wire |-> <<>>]
       ELSE LET r == Respond(packet.v, sock)
            IN IF r.st = "panic" THEN [outcome |-> "respond-panic", wire |-> <<>>]
               ELSE [outcome |-> r.why, wire |-> r.wire]

ServerHandle ==
    /\ srvPc = "handle"
    /\ \E sock \in {"full", "fail"} :
        LET h == HandleResult(srvCur, sock)
        IN /\ srvLog' = Append(srvLog, [data |-> srvCur.data, from |-> srvCur.from,
                                          outcome |-> h.outcome, wire |-> h.wire])
           /\ srvSent' = IF h.wire = <<>> THEN srvSent
                         ELSE Append(srvSent, [to |-> srvCur.from, data |-> h.wire[1]])
           /\ srvPc' = IF h.outcome \in {"decode-panic", "respond-panic"}
                       THEN "crashed" ELSE "read"
    /\ srvCur' = NoDatagram
    /\ UNCHANGED <<srvQueue, nRecv>>

ServerNext ==
    \/ EnvSend
    \/ ServerRead
    \/ ServerHandle

-----------------------------------------------------------------------------
(* Client.Dial(m) *)

ClientAddr == [IP |-> <<198, 51, 100, 7>>, Port |-> 40000]

DialAttrs ==
    {[Type |-> 6, Length |-> 3, PaddedLength |-> 4, Value |-> MkSlice(<<97, 98, 99, 0>>)],
     [Type |-> XORMappedAddress, Length |-> 8, PaddedLength |-> 8,
      Value |-> MkSlice(<<0, 1, 245, 35, 234, 18, 213, 71>>)]}

\* the caller's message: the type is set, the other header fields are
\* zero or left over from an earlier use
DialMessages ==
    {[Header |-> [Type |-> t, Length |-> l, MagicCookie |-> c, TransactionID |-> tid],
      Attributes |-> as] :
        t \in {BindingRequest, BindingResponse},
        l \in {0, 12},
        c \in {[hi |-> 0, lo |-> 0]},
        tid \in {TidZero, TidSeq},
        as \in SeqsUpTo(DialAttrs, MaxAttrs)}

\* randomTransactionID: 12 random bytes, all zero when rand.Read fails
RandomTids == {TidSeq, TidFF, TidMix, TidZero}

\* datagrams that may arrive on the client's socket besides the server's
\* answer to the request
StrayDatagrams ==
    {SampleResponse,
     HeaderOnly(BindingResponse, 4, magicCookie, TidFF),
     HeaderOnly(BindingResponse, 4, magicCookie, TidFF) \o <<0, 32, 0, 0>>,
     HeaderOnly(BindingResponse, 4, magicCookie, TidFF) \o <<0, 6, 255, 255>>,
     SubSeq(SampleResponse, 1, 10),
     HeaderOnly(BindingRequest, 0, [hi |-> 0, lo |-> 0], TidMix)}

\* the datagram a server running HandleUDPConn sends back for req
ServerAnswer(req) == HandleResult([data |-> req, from |-> ClientAddr], "full").wire

CliInit ==
    /\ cliPc = "resolve"
    /\ cliMsg \in DialMessages
    /\ cliOrig = cliMsg
    /\ cliWire = <<>>
    /\ cliInbox = <<>>
    /\ cliRet = [st |-> "none"]
    /\ cliTrace = <<>>

CliIdle ==
    /\ cliPc = "idle"
    /\ cliMsg = [Header |-> NoHdr, Attributes |-> <<>>]
    /\ cliOrig = cliMsg
    /\ cliWire = <<>>
    /\ cliInbox = <<>>
    /\ cliRet = [st |-> "none"]
    /\ cliTrace = <<>>

\* one step of Dial as it is recorded in cliTrace: the step, whether it
\* succeeded, and the datagram written or read
Step(op, ok, data) == [op |-> op, ok |-> ok, data |-> data]

\* the header fields set before net.ResolveUDPAddr is called
DialResolveAfterSet ==
    /\ cliPc = "resolve"
    /\ \E tid \in RandomTids :
          cliMsg' = [cliMsg EXCEPT !.Header.MagicCookie = magicCookie,
                                   !.Header.Length = Len(cliMsg.Attributes) % 65536,
                                   !.Header.TransactionID = tid]
    /\ \/ /\ cliPc' = "done"
          /\ cliRet' = Err("resolve")
          /\ cliTrace' = Append(cliTrace, Step("resolve", FALSE, <<>>))
       \/ /\ cliPc' = "open"
          /\ cliTrace' = Append(cliTrace, Step("resolve", TRUE, <<>>))
          /\ UNCHANGED cliRet
    /\ UNCHANGED <<cliOrig, cliWire, cliInbox>>

\* net.ResolveUDPAddr, then the header fields Dial sets (client.go 95-97)
DialResolve ==
    /\ cliPc = "resolve"
    /\ \/ /\ cliPc' = "done"
          /\ cliRet' = Err("resolve")
          /\ cliTrace' = Append(cliTrace, Step("resolve", FALSE, <<>>))
          /\ UNCHANGED cliMsg
       \/ \E tid \in RandomTids :
          /\ cliMsg' = [cliMsg EXCEPT !.Header.MagicCookie = magicCookie,
                                      !.Header.Length = Len(cliMsg.Attributes) % 65536,
                                      !.Header.TransactionID = tid]
          /\ cliPc' = "open"
          /\ cliTrace' = Append(cliTrace, Step("resolve", TRUE, <<>>))
          /\ UNCHANGED cliRet
    /\ UNCHANGED <<cliOrig, cliWire, cliInbox>>

\* net.DialUDP
DialOpen ==
    /\ cliPc = "open"
    /\ \/ /\ cliPc' = "done" /\ cliRet' = Err("dial")
          /\ cliTrace' = Append(cliTrace, Step("open", FALSE, <<>>))
       \/ /\ cliPc' = "write" /\ UNCHANGED cliRet
          /\ cliTrace' = Append(cliTrace, Step("open", TRUE, <<>>))
    /\ UNCHANGED <<cliMsg, cliOrig, cliWire, cliInbox>>

\* c.Write(encodedHeader) putting the datagram on the wire twice
DialWriteTwice ==
    /\ cliPc = "write"
    /\ \/ /\ cliPc' = "done" /\ cliRet' = Err("write") /\ UNCHANGED cliWire
          /\ cliTrace' = Append(cliTrace, Step("write", FALSE, <<>>))
       \/ /\ cliWire' = cliWire \o <<Bytes(encodeHeader(cliMsg.Header)),
                                     Bytes(encodeHeader(cliMsg.Header))>>
          /\ cliPc' = "read"
          /\ cliTrace' = cliTrace \o <<Step("write", TRUE, Bytes(encodeHeader(cliMsg.Header))),
                                       Step("write", TRUE, Bytes(encodeHeader(cliMsg.Header)))>>
          /\ UNCHANGED cliRet
    /\ UNCHANGED <<cliMsg, cliOrig, cliInbox>>

\* c.Write(encodedHeader)
DialWrite ==
    /\ cliPc = "write"
    /\ \/ /\ cliPc' = "done" /\ cliRet' = Err("write") /\ UNCHANGED cliWire
          /\ cliTrace' = Append(cliTrace, Step("write", FALSE, <<>>))
       \/ /\ cliWire' = Append(cliWire, Bytes(encodeHeader(cliMsg.Header)))
          /\ cliPc' = "read"
          /\ cliTrace' = Append(cliTrace,
                                Step("write", TRUE, Bytes(encodeHeader(cliMsg.Header))))
          /\ UNCHANGED cliRet
    /\ UNCHANGED <<cliMsg, cliOrig, cliInbox>>

\* a datagram reaches the client's socket while Dial waits in ReadFromUDP
EnvDeliver ==
    /\ cliPc = "read"
    /\ cliInbox = <<>>
    /\ \E d \in StrayDatagrams \cup {w[1] : w \in {ServerAnswer(cliWire[1])} \ {<<>>}} :
          cliInbox' = <<d>>
    /\ UNCHANGED <<cliPc, cliMsg, cliOrig, cliWire, cliRet, cliTrace>>

\* what Dial does with the 2048-byte buffer after the read: NewMessage on
\* the whole buffer, GetXorAddr for the log, return the message
DialDecode(data) ==
    LET rd == ReadInto(ClientBufSize, data)
        msg == NewMessage(rd.buff)
    IN IF msg.st # "ok" THEN msg
       ELSE IF GetXorAddr(msg.v).st = "panic" THEN Panic
       ELSE msg

\* the read and the decode with a test of the response's transaction ID
\* against the request's
DialReadMatching ==
    /\ cliPc = "read"
    /\ \/ /\ cliRet' = Err("read") /\ UNCHANGED cliInbox
          /\ cliTrace' = Append(cliTrace, Step("read", FALSE, <<>>))
       \/ /\ cliInbox # <<>>
          /\ LET r == DialDecode(Head(cliInbox))
             IN /\ cliRet' = IF r.st = "ok"
                                /\ r.v.Header.TransactionID # cliMsg.Header.TransactionID
                             THEN Err("transaction mismatch") ELSE r
                /\ cliTrace' = cliTrace \o <<Step("read", TRUE, Head(cliInbox)),
                                             Step("decode", r.st = "ok", <<>>)>>
          /\ cliInbox' = Tail(cliInbox)
    /\ cliPc' = "done"
    /\ UNCHANGED <<cliMsg, cliOrig, cliWire>>

\* c.ReadFromUDP returns: an error, or the first datagram, which is decoded
DialRead ==
    /\ cliPc = "read"
    /\ \/ /\ cliRet' = Err("read") /\ UNCHANGED cliInbox
          /\ cliTrace' = Append(cliTrace, Step("read", FALSE, <<>>))
       \/ /\ cliInbox # <<>>
          /\ LET r == DialDecode(Head(cliInbox))
             IN /\ cliRet' = r
                /\ cliTrace' = cliTrace \o <<Step("read", TRUE, Head(cliInbox)),
                                             Step("decode", r.st = "ok", <<>>)>>
          /\ cliInbox' = Tail(cliInbox)
    /\ cliPc' = "done"
    /\ UNCHANGED <<cliMsg, cliOrig, cliWire>>

ClientNext ==
    \/ DialResolve
    \/ DialOpen
    \/ DialWrite
    \/ EnvDeliver
    \/ DialRead

-----------------------------------------------------------------------------
(* Specifications *)

SrvIdle ==
    /\ srvPc = "idle"
    /\ srvQueue = <<>>
    /\ srvCur = NoDatagram
    /\ srvSent = <<>>
    /\ srvLog = <<>>
    /\ nRecv = 0

InitCodec == CodecInit /\ SrvIdle /\ CliIdle
NextCodec == CodecNext /\ UNCHANGED <<srvVars, cliVars>>
SpecCodec == InitCodec /\ [][NextCodec]_vars

InitServer == CodecIdle /\ SrvInit /\ CliIdle
NextServer == ServerNext /\ UNCHANGED <<codecVars, cliVars>>
SpecServer == InitServer /\ [][NextServer]_vars
\* Listen's loop is never suspended for good: a datagram waiting in the
\* socket is read, and a handler that has read one runs to its end.  The
\* two conditions are stated on the loop's position; a step from "read" to
\* "handle" is a ServerRead step and a step out of "handle" is a
\* ServerHandle step.
ReadProgress == srvPc = "read" /\ srvQueue # <<>> /\ srvPc' = "handle"
HandleProgress == srvPc = "handle" /\ srvPc' \in {"read", "crashed"}
FairSpecServer == SpecServer /\ WF_srvPc(ReadProgress) /\ WF_srvPc(HandleProgress)

InitClient == CodecIdle /\ SrvIdle /\ CliInit
NextClient == ClientNext /\ UNCHANGED <<codecVars, srvVars>>
SpecClient == InitClient /\ [][NextClient]_vars

-----------------------------------------------------------------------------
(* Properties *)

\* C1: decodeHeader(encodeHeader(h)) succeeds and gives back h in all four
\* fields, for every header h
C1_HeaderRoundTrip ==
    cop = "HeaderRoundTrip" => (cres.dec.st = "ok" /\ cres.dec.v = cin.hdr)

C1_Witness ==
    /\ cop = "HeaderRoundTrip"
    /\ cin.hdr = [Type |-> BindingResponse, Length |-> 258,
                  MagicCookie |-> [hi |-> 65535, lo |-> 65535],
                  TransactionID |-> TidSeq]
    /\ Bytes(cres.enc) = <<1, 1, 1, 2, 255, 255, 255, 255>> \o TidSeq
    /\ cres.dec.st = "ok"

\* C2: decodeAddr(serializeAddr(a, p)) gives family IPv4, the four octets
\* of a and the port p, for every IPv4 address a and port p
C2_XorInvolution ==
    cop = "AddrRoundTrip" =>
        /\ cres.ser.st = "ok"
        /\ cres.dec.st = "ok"
        /\ cres.dec.v = [Family |-> IPV4, IP |-> To4(cin.addr.IP), Port |-> cin.addr.Port]

C2_Witness ==
    /\ cop = "AddrRoundTrip"
    /\ cin.addr.IP = <<203, 0, 113, 5>> /\ cin.addr.Port = 54321
    /\ Bytes(cres.ser.v) = <<0, 1, 245, 35, 234, 18, 213, 71>>
    /\ cres.dec.st = "ok"

\* C3: DecodeAttr(a.Encode()) gives back Type, Length, PaddedLength and the
\* PaddedLength value bytes of a, for every attribute a whose value buffer
\* has the padded length
C3_AttrRoundTrip ==
    cop = "AttrRoundTrip" =>
        /\ cres.dec.st = "ok"
        /\ cres.dec.v.Type = cin.attr.Type
        /\ cres.dec.v.Length = cin.attr.Length
        /\ cres.dec.v.PaddedLength = cin.attr.PaddedLength
        /\ Bytes(cres.dec.v.Value) = Bytes(cin.attr.Value)

C3_Witness ==
    /\ cop = "AttrRoundTrip"
    /\ cin.attr.Length = 6 /\ cin.attr.PaddedLength = 8
    /\ cin.attr.Value.len = 8 /\ At(cin.attr.Value, 7) # 0
    /\ cres.enc.st = "ok" /\ cres.enc.v.len = 12
    /\ cres.dec.st = "ok"

\* attribute 0x0020 of a datagram on the wire, decoded through decodeAddr
MappedAddrOf(data) ==
    LET m == NewMessage(MkSlice(data))
    IN IF m.st # "ok" THEN m
       ELSE LET a == GetAttr(m.v, XORMappedAddress)
            IN IF a.found THEN decodeAddr(a.attr.Value) ELSE Err(ErrAttrNotFound)

\* C4: a response the server sends for a request from peer address A and
\* port P carries an XOR-MAPPED-ADDRESS attribute that decodeAddr turns
\* into exactly A and P
C4_ResponseCarriesPeer ==
    \A i \in 1..Len(srvLog) :
        srvLog[i].wire # <<>> =>
            MappedAddrOf(srvLog[i].wire[1]) =
                Ok([Family |-> IPV4, IP |-> To4(srvLog[i].from.IP),
                    Port |-> srvLog[i].from.Port])

C4_Witness ==
    \E i \in 1..Len(srvLog) :
        /\ srvLog[i].from = PeerA
        /\ srvLog[i].outcome = "sent"
        /\ srvLog[i].wire = <<SampleResponse>>
        /\ MappedAddrOf(SampleResponse).v.IP = <<203, 0, 113, 5>>
        /\ MappedAddrOf(SampleResponse).v.Port = 54321

\* the datagram of a log entry was decoded by NewPacket
Decoded(e) == e.outcome \notin {"decode-error", "decode-panic"}

\* the response of a log entry: one datagram, a binding response with the
\* protocol's cookie, the request's transaction ID and one attribute
WellAnswered(e) ==
    /\ Len(e.wire) = 1
    /\ LET m == NewMessage(MkSlice(e.wire[1]))
           req == decodeHeader(MkSlice(e.data))
       IN /\ m.st = "ok"
          /\ m.v.Header.Type = BindingResponse
          /\ m.v.Header.MagicCookie = magicCookie
          /\ m.v.Header.TransactionID = req.v.TransactionID
          /\ Len(m.v.Attributes) = 1

\* the datagrams on the wire are the responses of the log, in order, each
\* addressed to the sender of its request
WireMatchesLog ==
    LET answered == SelectSeq(srvLog, LAMBDA e : e.wire # <<>>)
    IN /\ Len(srvSent) = Len(answered)
       /\ \A i \in 1..Len(srvSent) :
            /\ srvSent[i].to = answered[i].from
            /\ srvSent[i].data = answered[i].wire[1]

\* C5 as stated: every datagram the server has decoded has been answered
\* with exactly one binding response to its sender
C5_Original ==
    /\ WireMatchesLog
    /\ \A i \in 1..Len(srvLog) : Decoded(srvLog[i]) => WellAnswered(srvLog[i])

\* C5 amended: a decoded datagram is answered with exactly one binding
\* response to its sender (cookie, the request's transaction ID, one
\* attribute) unless the socket write reports an error, and then nothing is
\* sent for it; the handler always comes to that end
C5_Answered ==
    /\ [](/\ WireMatchesLog
          /\ \A i \in 1..Len(srvLog) :
                Decoded(srvLog[i]) =>
                    \/ srvLog[i].outcome = "sent" /\ WellAnswered(srvLog[i])
                    \/ srvLog[i].outcome = "write-error" /\ srvLog[i].wire = <<>>)
    /\ \A k \in 1..(MaxDatagrams + 1) :
          (srvPc = "handle" /\ Len(srvLog) = k - 1) ~> (Len(srvLog) = k)

C5_Witness ==
    /\ Len(srvLog) = 2
    /\ srvLog[1].outcome = "write-error"
    /\ srvLog[2].outcome = "sent" /\ srvLog[2].from = PeerB
    /\ Len(srvSent) = 1 /\ srvSent[1].to = PeerB
    /\ srvSent[1].data = HeaderOnly(BindingResponse, 12, magicCookie, TidMix)
                         \o <<0, 32, 0, 8, 0, 1, 0, 0, 43, 18, 164, 67>>

\* C6 as stated: decodeHeader and NewMessage on a buffer of fewer than 20
\* bytes return ErrShortBuffer and do not fault
C6_ShortHeader ==
    (cop \in {"decodeHeader", "NewMessage"} /\ cin.buf.len < headrLength) =>
        cres = Err(ErrShortBuffer)

\* the leading attribute of a buffer does not fit in the buffer's bytes
AttrOverruns(buff) ==
    \/ buff.len < 4
    \/ 4 + PaddedLen((At(buff, 2) * 256) + At(buff, 3)) > buff.len

\* C7 as stated: an attribute that overruns the remaining bytes makes
\* DecodeAttr, decodeAttrs and NewMessage return an error
C7_OverrunIsError ==
    /\ (cop \in {"DecodeAttr", "decodeAttrs"} /\ AttrOverruns(cin.buf)) => cres.st = "err"
    /\ (cop = "NewMessage" /\ cin.buf \in BufSlices(OverrunBufs)) => cres.st = "err"

\* C8 as stated: whatever datagrams were received, the server is still in
\* its accept loop
C8_StillAccepting == srvPc \in {"read", "handle"}

\* C9 as stated: NewMessage returns a message only when bytes 4..7 are the
\* magic cookie, and an error for every other cookie
C9_CookieValidated ==
    (cop = "NewMessage" /\ cin.buf.len >= headrLength) =>
        LET cookie == Pack32(At(cin.buf, 4), At(cin.buf, 5), At(cin.buf, 6), At(cin.buf, 7))
        IN /\ cres.st = "ok" => cookie = magicCookie
           /\ cookie # magicCookie => cres.st = "err"

\* C10 as stated: once Dial has populated the header, the cookie is the
\* protocol constant, the transaction ID has 12 bytes and Length is the
\* byte size of the attribute section
C10_HeaderPopulated ==
    cliPc \in {"open", "write", "read"} =>
        /\ cliMsg.Header.MagicCookie = magicCookie
        /\ Len(cliMsg.Header.TransactionID) = 12
        /\ cliMsg.Header.Length = AttrSectionSize(cliMsg.Attributes)

\* C11 as stated: the datagram Dial has written is the 20-byte header
\* followed by the encoding of every attribute of the message, in order
C11_WholeRequestWritten ==
    \A i \in 1..Len(cliWire) :
        cliWire[i] = Bytes(encodeHeader(cliMsg.Header)) \o AttrsEncoding(cliMsg.Attributes)

HasXorAttr(attrs) == \E i \in 1..Len(attrs) : attrs[i].Type = XORMappedAddress

\* the first XOR-MAPPED-ADDRESS attribute in wire order
FirstXorAttr(attrs) ==
    attrs[CHOOSE i \in 1..Len(attrs) :
            /\ attrs[i].Type = XORMappedAddress
            /\ \A j \in 1..(i - 1) : attrs[j].Type # XORMappedAddress]

\* the address an 8-byte XOR-MAPPED-ADDRESS value stands for
AddrOfValue(val) ==
    [Family |-> val[2],
     Port |-> Xor16((val[3] * 256) + val[4], 8466),
     IP |-> <<Xor8(val[5], 33), Xor8(val[6], 18), Xor8(val[7], 164), Xor8(val[8], 66)>>]

\* C12 as stated: not a binding response gives (nil, nil); a binding
\* response without the attribute gives ErrAttrNotFound; a binding response
\* with the attribute gives the decoded address of the first one
C12_Original ==
    cop = "GetXorAddr" =>
        LET m == cres.msg
            r == cres.ret
        IN /\ m.Header.Type # BindingResponse => r = [st |-> "ok", nil |-> TRUE]
           /\ (m.Header.Type = BindingResponse /\ ~HasXorAttr(m.Attributes)) =>
                r = Err(ErrAttrNotFound)
           /\ (m.Header.Type = BindingResponse /\ HasXorAttr(m.Attributes)) =>
                /\ r.st = "ok"
                /\ r.nil = FALSE
                /\ FirstXorAttr(m.Attributes).Value.len >= 8 =>
                      r.v = AddrOfValue(Bytes(FirstXorAttr(m.Attributes).Value))

\* the padding law for a declared length n and a padded length p
PaddingLaw(n, p) ==
    /\ (n % 4 = 0) => p = n
    /\ (n % 4 # 0) => p = n + (4 - (n % 4))
    /\ p % 4 = 0
    /\ p >= n
    /\ p < n + 4

\* C13: for every declared length n in 0..65535 the padded length DecodeAttr
\* computes is n when n is a multiple of 4 and n + (4 - n % 4) otherwise; it
\* is a multiple of 4, at least n and less than n + 4
C13_PaddingLaw ==
    /\ cop = "PaddedLen" => PaddingLaw(cin.n, cres.padded)
    /\ (cop = "DecodeAttr" /\ cres.st = "ok") =>
          /\ cres.v.Length = (At(cin.buf, 2) * 256) + At(cin.buf, 3)
          /\ PaddingLaw(cres.v.Length, cres.v.PaddedLength)
          /\ cres.v.Value.len = cres.v.PaddedLength

C13_Witness ==
    /\ cop = "PaddedLen"
    /\ cin.n = 65535
    /\ cres.padded = 65536

\* C14: on the concatenation of the encodings of k attributes, with
\* total_length the sum of their 4 + PaddedLength, decodeAttrs returns those
\* k attributes in wire order, type and value boundaries intact, and its
\* cursor ends exactly at total_length
C14_MultiAttrDecode ==
    (cop = "decodeAttrs" /\ cin.kind = "attrseq") =>
        /\ cin.buf.len = AttrSectionSize(cin.attrs)
        /\ cres.st = "ok"
        /\ Len(cres.v) = Len(cin.attrs)
        /\ \A i \in 1..Len(cin.attrs) :
              /\ cres.v[i].Type = cin.attrs[i].Type
              /\ cres.v[i].Length = cin.attrs[i].Length
              /\ cres.v[i].PaddedLength = cin.attrs[i].PaddedLength
              /\ Bytes(cres.v[i].Value) = Bytes(cin.attrs[i].Value)
        /\ cres.offset = cin.buf.len

C14_Witness ==
    /\ cop = "decodeAttrs" /\ cin.kind = "attrseq"
    /\ Len(cin.attrs) = 2
    /\ cin.attrs[1].Length = 4 /\ cin.attrs[2].Length = 6
    /\ cin.buf.len = 20 /\ Cap(cin.buf) = 20
    /\ Len(cres.v) = 2
    /\ cres.v[2].PaddedLength = 8
    /\ cres.offset = 20

\* C15 as stated: for every buffer holding a well-formed message,
\* NewMessage(b).Encode() is the first 20 + length bytes of b
C15_Original ==
    cop = "Reencode" =>
        /\ cres.st = "ok"
        /\ cres.enc.st = "ok"
        /\ Bytes(cres.enc.v) = SubSeq(Bytes(cin.buf), 1, 20 + cin.hdr.Length)

\* C16 as stated: while the handling of one datagram has not finished, a
\* datagram waiting in the socket can be read
C16_ConcurrentDispatch ==
    (srvPc = "handle" /\ srvQueue # <<>>) => ENABLED ServerRead

\* the socket operations of the trace: writes and reads, in order
SocketOps == SelectSeq(cliTrace, LAMBDA e : e.op \in {"write", "read"})

\* C17: one call of Dial does at most one send and at most one receive, in
\* that order and without retry, and it returns only once a datagram has
\* been received or a step has failed
C17_SingleShot ==
    /\ Len(SocketOps) <= 2
    /\ Len(SocketOps) >= 1 => SocketOps[1].op = "write"
    /\ Len(SocketOps) = 2 => (SocketOps[1].ok /\ SocketOps[2].op = "read")
    /\ Len(cliWire) <= 1
    /\ cliPc = "done" =>
          \/ \E i \in 1..Len(cliTrace) :
                cliTrace[i].op \in {"resolve", "open", "write", "read"} /\ ~cliTrace[i].ok
          \/ \E i \in 1..Len(cliTrace) : cliTrace[i].op = "read" /\ cliTrace[i].ok
    /\ cliPc # "done" => cliRet = [st |-> "none"]

C17_Witness ==
    /\ cliPc = "done"
    /\ Len(cliTrace) = 5
    /\ \A i \in 1..5 : cliTrace[i].ok
    /\ <<cliTrace[3].op, cliTrace[4].op>> = <<"write", "read">>
    /\ Len(cliWire) = 1
    /\ cliRet.st = "ok"

\* C18: the datagram read first is decoded and returned whatever its
\* transaction ID: the outcome of Dial after a read is that of decoding the
\* datagram, and the request's transaction ID plays no part in it
C18_NoCorrelation ==
    \A i \in 1..Len(cliTrace) :
        (cliTrace[i].op = "read" /\ cliTrace[i].ok) =>
            /\ cliPc = "done"
            /\ cliRet = DialDecode(cliTrace[i].data)
            /\ cliRet.st = "ok" =>
                  cliRet.v.Header.TransactionID =
                      SubSeq(cliTrace[i].data \o Zeros(20), 9, 20)

C18_Witness ==
    /\ cliPc = "done"
    /\ cliMsg.Header.TransactionID = TidFF
    /\ \E i \in 1..Len(cliTrace) :
          cliTrace[i].op = "read" /\ cliTrace[i].data = SampleResponse
    /\ cliRet.st = "ok"
    /\ cliRet.v.Header.TransactionID = TidSeq

\* the four octets of an IPv4 address given in 4 or in 16 bytes
Octets(ip) == IF Len(ip) = 4 THEN ip ELSE SubSeq(ip, 13, 16)

\* C19: for every IPv4 address and port serializeAddr returns exactly 8
\* bytes: 0, 0x01, the port XOR 0x2112 big-endian, and each octet XOR the
\* byte 0x21, 0x12, 0xA4, 0x42 at its position; the transaction ID has no
\* part in the result
C19_SerializeLayout ==
    (cop = "serializeAddr" /\ cin.kind = "addr") =>
        /\ cres.ser.st = "ok"
        /\ cres.ser.v.len = 8
        /\ Cap(cres.ser.v) = 8
        /\ Bytes(cres.ser.v) =
              <<0, 1,
                Xor16(cin.addr.Port, 8466) \div 256,
                Xor16(cin.addr.Port, 8466) % 256,
                Xor8(Octets(cin.addr.IP)[1], 33),
                Xor8(Octets(cin.addr.IP)[2], 18),
                Xor8(Octets(cin.addr.IP)[3], 164),
                Xor8(Octets(cin.addr.IP)[4], 66)>>

C19_Witness ==
    /\ cop = "serializeAddr"
    /\ cin.addr.IP = <<203, 0, 113, 5>> /\ cin.addr.Port = 54321
    /\ cres.tid = TidFF
    /\ Bytes(cres.ser.v) = <<0, 1, 245, 35, 234, 18, 213, 71>>

\* an address that is neither 4 bytes nor an IPv4-mapped 16 bytes
NotIPv4(ip) ==
    /\ Len(ip) # 4
    /\ ~(/\ Len(ip) = 16
         /\ SubSeq(ip, 1, 12) = Zeros(10) \o <<255, 255>>)

\* C20: for an address that is not a valid IPv4 address serializeAddr
\* returns an error and no bytes, and the handler, given a packet from such
\* an address, ends without sending a response
C20_NonIPv4Fails ==
    /\ (cop = "serializeAddr" /\ NotIPv4(cin.addr.IP)) =>
          cres.ser = Err(ErrInvalidIPv4)
    /\ (cop = "Respond" /\ NotIPv4(cin.addr.IP)) =>
          /\ cres.st = "err"
          /\ cres.why = "serialize-error"
          /\ cres.wire = <<>>

C20_Witness ==
    /\ cop = "Respond"
    /\ cin.addr.IP = <<32, 1, 13, 184>> \o Zeros(11) \o <<1>>
    /\ cin.hdr.Type = BindingRequest
    /\ cres.why = "serialize-error"
    /\ cres.wire = <<>>

\* C21: encodeHeader returns exactly 20 bytes: the type in bytes 0..1, the
\* length in bytes 2..3, the magic cookie in bytes 4..7, each most
\* significant byte first, and the transaction ID in bytes 8..19;
\* decodeHeader reads the fields from the same positions
C21_HeaderLayout ==
    /\ cop = "HeaderRoundTrip" =>
          /\ cres.enc.len = 20
          /\ Cap(cres.enc) = 20
          /\ Bytes(cres.enc) =
                <<cin.hdr.Type \div 256, cin.hdr.Type % 256,
                  cin.hdr.Length \div 256, cin.hdr.Length % 256,
                  cin.hdr.MagicCookie.hi \div 256, cin.hdr.MagicCookie.hi % 256,
                  cin.hdr.MagicCookie.lo \div 256, cin.hdr.MagicCookie.lo % 256>>
                \o cin.hdr.TransactionID
    /\ (cop = "decodeHeader" /\ cin.buf.len >= 20) =>
          /\ cres.st = "ok"
          /\ cres.v.Type = (At(cin.buf, 0) * 256) + At(cin.buf, 1)
          /\ cres.v.Length = (At(cin.buf, 2) * 256) + At(cin.buf, 3)
          /\ cres.v.MagicCookie.hi = (At(cin.buf, 4) * 256) + At(cin.buf, 5)
          /\ cres.v.MagicCookie.lo = (At(cin.buf, 6) * 256) + At(cin.buf, 7)
          /\ cres.v.TransactionID = SubSeq(Bytes(cin.buf), 9, 20)

C21_Witness ==
    /\ cop = "HeaderRoundTrip"
    /\ cin.hdr = [Type |-> 1, Length |-> 0, MagicCookie |-> magicCookie,
                  TransactionID |-> TidSeq]
    /\ Bytes(cres.enc) = <<0, 1, 0, 0, 33, 18, 164, 66,
                           1, 2, 3, 4, 5, 6, 7, 8, 9, 10, 11, 12>>

\* the error Dial returns when the given step returns an error
StepError(op) ==
    CASE op = "resolve" -> Err("resolve")
      [] op = "open" -> Err("dial")
      [] op = "write" -> Err("write")
      [] OTHER -> Err("read")

\* C22 as stated: when a step of Dial fails (resolve, open, write, read or
\* the decoding of the response), that step is the last one of the
\* transaction and Dial returns its error and no message: nothing is written
\* after a failed resolve or open, nothing is read after a failed write,
\* nothing is decoded after a failed read
C22_FirstErrorReturned ==
    \A i \in 1..Len(cliTrace) :
        ~cliTrace[i].ok =>
            /\ i = Len(cliTrace)
            /\ \A j \in 1..(i - 1) : cliTrace[j].ok
            /\ cliPc = "done"
            /\ cliTrace[i].op \in {"resolve", "open", "write"} => cliWire = <<>>
            /\ cliTrace[i].op # "decode" => cliRet = StepError(cliTrace[i].op)
            /\ cliTrace[i].op = "decode" => cliRet.st = "err"

\* C23 as stated: Message.Encode returns a buffer of exactly
\* 20 + Header.Length bytes for every Header.Length, those from 65516 to
\* 65535 included
C23_EncodeSize ==
    cop = "Encode" =>
        /\ cres.st = "ok"
        /\ cres.len = 20 + cin.hdr.Length

\* C24: Packet.Write returns ErrShortWrite and the byte count whenever the
\* count the socket reports is less than 20 + Header.Length of the message,
\* and no error when the count is at least that
C24_ShortWrite ==
    (cop = "PacketWrite" /\ cres.sock # "fail") =>
        LET size == 20 + cin.hdr.Length
            count == Written(cres.sock, size)
        IN /\ cres.r.st # "panic"
           /\ cres.r.n = count
           /\ count < size => (cres.r.st = "err" /\ cres.r.why = ErrShortWrite)
           /\ count >= size => cres.r.st = "ok"

C24_Witness ==
    /\ cop = "PacketWrite"
    /\ cres.sock = "short"
    /\ cin.hdr.Length = 12
    /\ cres.r.st = "err"
    /\ cres.r.why = ErrShortWrite
    /\ cres.r.n = 31

\* C25: decodeAttrs terminates for every buffer and length: each iteration
\* advances the cursor by at least 4, so there are at most ceil(length / 4)
\* iterations, after which the loop has returned what decodeAttrs returns or
\* faulted where it faults; with length 0 it returns the empty list without
\* an iteration, whatever the buffer
CeilDiv4(n) == (n + 3) \div 4

C25_LoopTerminates ==
    cop = "decodeAttrsLoop" =>
        LET whole == decodeAttrs(cin.buf, cin.n)
        IN /\ cres.iters > 0 => cres.offset >= cres.prev + 4
           /\ cres.offset >= 4 * cres.iters
           /\ cres.iters <= CeilDiv4(cin.n)
           /\ cres.iters = Len(cres.attrs)
           /\ cres.st = "ok" => (whole.st = "ok" /\ whole.v = cres.attrs)
           /\ cres.st = "panic" => whole.st = "panic"
           /\ (cin.n = 0 /\ cres.st # "loop") =>
                 (cres.st = "ok" /\ cres.iters = 0 /\ cres.attrs = <<>>)

C25_Witness ==
    /\ cop = "decodeAttrsLoop"
    /\ cin.n = 64 /\ cin.buf.len = 64
    /\ cres.st = "ok"
    /\ cres.iters = 16

\* C26: the server's response depends on the request's transaction ID and
\* the sender's address and port only: two decodable requests with the same
\* transaction ID from the same sender are answered with the same 32 bytes,
\* whatever their message types and attributes
Handled(e) ==
    LET rd == ReadInto(ServerBufSize, e.data)
    IN NewPacket(Prefix(rd.buff, rd.n), e.from)

SameRequester(e, f) ==
    /\ e.outcome = "sent" /\ f.outcome = "sent"
    /\ e.from = f.from
    /\ Handled(e).v.message.Header.TransactionID
         = Handled(f).v.message.Header.TransactionID

C26_ResponseDeterminedByTidAndPeer ==
    \A i, j \in DOMAIN srvLog :
        SameRequester(srvLog[i], srvLog[j]) =>
            /\ srvLog[i].wire = srvLog[j].wire
            /\ Len(srvLog[i].wire) = 1
            /\ Len(srvLog[i].wire[1]) = 32

C26_Witness ==
    /\ Len(srvLog) = 2
    /\ SameRequester(srvLog[1], srvLog[2])
    /\ Handled(srvLog[1]).v.message.Header.Type = BindingRequest
    /\ Handled(srvLog[2]).v.message.Header.Type = BindingResponse
    /\ Handled(srvLog[1]).v.message.Attributes = <<>>
    /\ Len(Handled(srvLog[2]).v.message.Attributes) = 1
    /\ srvLog[1].wire = srvLog[2].wire

\* what a caller sees of an attribute: its type, declared length and value
AttrView(a) == [Type |-> a.Type, Length |-> a.Length, Value |-> Bytes(a.Value)]

\* C27 as stated: the message Dial returns is decoded from the received
\* bytes only, and a response whose header length field exceeds the received
\* size is reported as an error, not decoded and not a fault
C27_DecodedFromReceived ==
    (cliPc = "done" /\ Len(cliTrace) >= 2 /\ cliTrace[Len(cliTrace)].op = "decode") =>
        LET d == cliTrace[Len(cliTrace) - 1].data
            exact == NewMessage(MkSlice(d))
        IN /\ cliRet.st # "panic"
           /\ (Len(d) < headrLength
               \/ headrLength + (d[3] * 256) + d[4] > Len(d)) => cliRet.st = "err"
           /\ cliRet.st = "ok" =>
                 /\ exact.st = "ok"
                 /\ cliRet.v.Header = exact.v.Header
                 /\ Len(cliRet.v.Attributes) = Len(exact.v.Attributes)
                 /\ \A i \in 1..Len(cliRet.v.Attributes) :
                       AttrView(cliRet.v.Attributes[i]) = AttrView(exact.v.Attributes[i])

\* the header's length field equals the number of bytes after the header
LengthFieldFits(d) ==
    /\ Len(d) >= headrLength
    /\ (d[3] * 256) + d[4] = Len(d) - headrLength

\* C28 as stated: every datagram Dial writes, and every answer the server
\* handler writes to it, has a length field equal to the number of bytes
\* after the 20-byte header, and the peer's NewMessage decodes it
C28_WireWellFormed ==
    \A i \in 1..Len(cliWire) :
        /\ LengthFieldFits(cliWire[i])
        /\ Handled([data |-> cliWire[i], from |-> ClientAddr]).st = "ok"
        /\ \A w \in {ServerAnswer(cliWire[i])} \ {<<>>} :
              /\ LengthFieldFits(w[1])
              /\ DialDecode(w[1]).st = "ok"

\* C29 as stated: GetXorAddr does not fault on a message NewMessage
\* produced, and for a binding response whose first XOR-MAPPED-ADDRESS
\* attribute has a value shorter than 8 bytes it returns an error
C29_ShortValueIsError ==
    cop = "GetXorAddr" =>
        /\ cres.ret.st # "panic"
        /\ (/\ cres.msg.Header.Type = BindingResponse
            /\ HasXorAttr(cres.msg.Attributes)
            /\ FirstXorAttr(cres.msg.Attributes).Value.len < XORMappedAddressLength) =>
               cres.ret.st = "err"

\* C30: Dial changes only the MagicCookie, Length and TransactionID fields
\* of the caller's message: the type and the attribute list are as they were
\* at the call on every return path, and when address resolution fails the
\* whole message is as it was
C30_DialFrame ==
    /\ cliMsg.Header.Type = cliOrig.Header.Type
    /\ cliMsg.Attributes = cliOrig.Attributes
    /\ (cliPc = "done" /\ cliRet = Err("resolve")) => cliMsg = cliOrig
    /\ cliPc = "resolve" => cliMsg = cliOrig

C30_Witness ==
    /\ cliPc = "done"
    /\ cliRet.st = "ok"
    /\ Len(cliOrig.Attributes) = 2
    /\ cliOrig.Header.Type = BindingResponse
    /\ cliOrig.Header.Length = 12
    /\ cliMsg.Header.Length = 2
    /\ cliMsg.Header.MagicCookie # cliOrig.Header.MagicCookie
    /\ cliMsg.Header.TransactionID # cliOrig.Header.TransactionID
    /\ cliMsg.Header.Type = BindingResponse
    /\ cliMsg.Attributes = cliOrig.Attributes

====
